---- MODULE Spec2Model ----
(***************************************************************************)
(* Model of the freezer_monitor sensor fleet (src/src/freezer_monitor).    *)
(*                                                                         *)
(* SpecBus : the threads that share the I2C bus -- every sensor's run()    *)
(*           loop, its heater Timer thread (run_heater), the display       *)
(*           thread and the rescan timer -- interleaved at the             *)
(*           granularity of lock operations and bus transactions.          *)
(* SpecRun : one sensor actor's polling loop with its data -- the          *)
(*           monotonic clock, the poll counter, the rolling window and     *)
(*           the rate-limited alerts of EMailer.                           *)
(* SpecLog : one DailyRotatingCSV writer thread with the thread that calls *)
(*           write() and close(), over a few calendar days.                *)
(* SpecReg : the Sensors registry, its rescans and the actors it starts    *)
(*           and stops.                                                    *)
(***************************************************************************)
EXTENDS Integers, Sequences, FiniteSets, TLC

\* The sensor keys of the settings file (sensor.<channel>.SHT30).
SensorIds == {1, 2}

\* The deployments checked: how many of the sensors are attached to the
\* muxer (they are found by the first scan), whether a display was found on
\* the bus (monitor.main starts the display thread only then), and whether
\* the Sensors registry rescans.
Deployments ==
    { [n |-> 1, display |-> TRUE, rescan |-> TRUE],
      [n |-> 2, display |-> FALSE, rescan |-> FALSE] }

\* A float that is NaN is the empty tuple, a finite float v is <<v>>.
NaN == << >>

VARIABLES
    I2C_LOCK,     \* __init__.py I2C_LOCK: the threads whose acquire() succeeded
                  \* and that have not released yet
    HEATER_LOCK,  \* BaseSHT.HEATER_LOCK, likewise
    STOP_EVENT,   \* __init__.py STOP_EVENT
    pc,           \* position of every thread
    stop,         \* SHT30.__stop of each sensor actor
    heater,       \* heater bit of each physical sensor
    heaterTimer,  \* BaseSensor._heater_timer: whether a started Timer is pending
    call,         \* each thread's current poll()/_toggle_heater()/draw() call:
                  \* acquire timed out, bus transactions made, values read
    sensors,      \* Sensors._sensors: the keys with a registered actor
    idx,          \* SSD1306.run idx
    scanKey,      \* the key the rescan loop is at
    deployment,   \* what is attached to the bus
    cfg,          \* the actor's constructor arguments and mail settings
    now,          \* time.monotonic(), in seconds
    t0,           \* SHT30.run t0: monotonic time of the last poll
    nn,           \* SHT30.nn
    t_30min_avg,  \* SHT30.t_30min_avg
    lastSent,     \* EMailer.__allNaN, __overTemp, __underTemp
    sent,         \* per alert kind, the monotonic times a sendMail returned
    requested,    \* what the last loop iteration did about alerts
    inserted,     \* the latest temperatures the loop has put into the window,
                  \* in order: one more than the window holds
    dpolls,       \* polls made by display_text() so far
    lastFail,     \* per alert kind, None or the end time and the failed step of
                  \* the last sendMail when that one did not get the mail out
    raised,       \* an exception of sendMail has ended the thread of SHT30.run
    crashed,      \* an exception of the loop body itself has ended that thread
    reading,      \* what poll() gave the last loop iteration, which passed it
                  \* to data_log.write: whether the lock was acquired, t, rh
    TLOCK,        \* emailer.TLOCK: 0, or the sensor whose alert method holds it
    mpc,          \* per sensor, where its run() loop is towards the mailer
    cycles,       \* per sensor, what each loop iteration it has completed did
    _QUEUE,       \* DailyRotatingCSV._QUEUE: records <<id>> and the sentinel None
    _closed,      \* DailyRotatingCSV._closed
    _date,        \* DailyRotatingCSV._date: None or <<day>>
    _fid,         \* DailyRotatingCSV._fid: None or the handle's file and state
    _backup,      \* DailyRotatingCSV._backup
    files,        \* the dated files '<csv>.<day>' of the directory, each with
                  \* the ids of its lines
    link,         \* the file the stable name '<csv>' is a link to
    today,        \* the local calendar day of datetime.now()
    wpc,          \* position of the writer thread
    nwrites,      \* calls of write() so far
    accepted,     \* ids of the records write() has put into the queue
    lines,        \* the lines written so far: id, day of writing, file
    closes,       \* calls of close() so far
    late,         \* ids of the write() calls made after a close()
    xpc,          \* position of the SHT30.run thread on its way out of run()
    offTried,     \* that thread has made its last _toggle_heater(False) call
    SCAN_LOCK,    \* Sensors.SCAN_LOCK is held
    registry,     \* Sensors._sensors: key -> actor (0: no entry)
    actors,       \* every actor constructed so far, in order of construction
    device,       \* the keys whose device is plugged in on its muxer channel
    rk,           \* the key the rescan is at (0: no scan running)
    rpc,          \* position of the rescan within that key
    outcome,      \* what the rescan did for the last key it handled
    jpc,          \* position of the thread that calls Sensors.join()
    joinee,       \* the actor that thread is joining (0: none)
    view,         \* the last read of the registry by another thread
    _timer,       \* RepeatedTimer._timer: the number of the Timer it refers to
    pending,      \* the Timers started and neither expired nor cancelled
    cancelled,    \* the Timers cancel() was called on
    is_running,   \* RepeatedTimer.is_running
    cb,           \* per Timer, the position of its _run callback
    spc,          \* position of the thread that calls RepeatedTimer.stop()
    made,         \* Timers constructed so far
    calledAfterStop \* the function was invoked after stop() had returned

busVars == << I2C_LOCK, HEATER_LOCK, STOP_EVENT, pc, stop, heater, heaterTimer,
              call, sensors, idx, scanKey, deployment >>

runVars == << cfg, now, t0, nn, t_30min_avg, lastSent, sent, requested,
              inserted, dpolls, lastFail, raised, crashed, reading, TLOCK, mpc,
              cycles >>

logVars == << _QUEUE, _closed, _date, _fid, _backup, files, link, today, wpc,
              nwrites, accepted, lines, closes, late, xpc, offTried >>

timerVars == << _timer, pending, cancelled, is_running, cb, spc, made,
               calledAfterStop >>

regVars == << SCAN_LOCK, registry, actors, device, rk, rpc, outcome, jpc, joinee,
             view, timerVars >>

auxVars == << logVars, regVars >>

vars == << busVars, runVars, auxVars >>

----------------------------------------------------------------------------
\* Threads

RunT(s) == << "run", s >>
HeatT(s) == << "heat", s >>
DispT == << "disp", 0 >>
ScanT == << "scan", 0 >>

Threads == {RunT(s) : s \in SensorIds} \cup {HeatT(s) : s \in SensorIds}
           \cup {DispT, ScanT}

\* The sensor a thread's poll()/_toggle_heater() call talks to.
Target(t) == IF t = DispT THEN idx ELSE t[2]

\* Temperature and humidity the hardware returns on a successful read.
BusTemps == {20}
BusRH == {50}

NoCall == [timedOut |-> FALSE, ops |-> 0, t |-> NaN, rh |-> NaN]

Goto(t, to) == pc' = [pc EXCEPT ![t] = to]

\* Positions between a successful I2C_LOCK.acquire and the release that
\* follows it: the next step is a transaction on the I2C bus.
LockedPc == {"poll_t", "poll_rh", "on_write", "off_write", "fin_write",
             "draw_show", "clr_show"}

\* Positions whose next step is a transaction on the I2C bus.
BusOpPc == LockedPc \cup {"scan_status", "scan_mux"}

\* Positions at which poll(), _toggle_heater() and draw() have returned.
ReturnPc == {"loop", "draw_acquire", "off_acquire", "hunlock", "done", "disp_loop"}

----------------------------------------------------------------------------
\* threading.Lock

\* Lock.acquire succeeds only on an unlocked lock.
CanAcquireBug(lock) == TRUE
CanAcquire(lock) == lock = {}

\* I2C_LOCK.acquire(timeout=LOCK_TIMEOUT) returned False: poll(),
\* _toggle_heater() and draw() log a warning and return (to `ret`) at once.
AcquireTimedOutBug(t, ok, ret) ==
    /\ Goto(t, ok)
    /\ call' = [call EXCEPT ![t] = [NoCall EXCEPT !.timedOut = TRUE]]
    /\ UNCHANGED I2C_LOCK
AcquireTimedOut(t, ok, ret) ==
    /\ Goto(t, ret)
    /\ call' = [call EXCEPT ![t] = [NoCall EXCEPT !.timedOut = TRUE]]
    /\ UNCHANGED I2C_LOCK

\* I2C_LOCK.acquire(timeout=LOCK_TIMEOUT) at position `from`, the first
\* statement of poll(), _toggle_heater() and draw(): it succeeds on a free
\* lock (on to `ok`) and fails after LOCK_TIMEOUT with the lock taken.
Acquire(t, from, ok, ret) ==
    /\ pc[t] = from
    /\ \/ /\ CanAcquire(I2C_LOCK)
          /\ I2C_LOCK' = I2C_LOCK \cup {t}
          /\ Goto(t, ok)
          /\ call' = [call EXCEPT ![t] = NoCall]
       \/ /\ ~CanAcquire(I2C_LOCK)
          /\ AcquireTimedOut(t, ok, ret)

\* I2C_LOCK.release(), the statement after the try blocks; failed(c) says
\* that every bus access of call c raised
ReleaseBug(t, failed) == IF failed THEN I2C_LOCK ELSE I2C_LOCK \ {t}
Release(t, failed) == I2C_LOCK \ {t}

----------------------------------------------------------------------------
\* SHT30.poll, called by the sensor's run() loop and, through display_text(),
\* by the display thread

PollCallers == {RunT(s) : s \in SensorIds} \cup {DispT}

PollRet(t) == IF t = DispT THEN "draw_acquire" ELSE "loop"

PollAcquire(t) ==
    /\ Acquire(t, "poll_acquire", "poll_t", PollRet(t))
    /\ UNCHANGED << HEATER_LOCK, STOP_EVENT, stop, heater, heaterTimer,
                    sensors, idx, scanKey, deployment, runVars, auxVars >>

\* Where poll() goes on after the try block of the temperature read: the
\* except branch logs and falls through to the humidity read
AfterTemperatureBug(v, ret) == IF v = NaN THEN ret ELSE "poll_rh"
AfterTemperature(v, ret) == "poll_rh"

\* t = self.sensor.temperature, NaN kept when the read raises
PollTemperature(t) ==
    /\ pc[t] = "poll_t"
    /\ \E v \in {NaN} \cup {<< x >> : x \in BusTemps} :
         /\ call' = [call EXCEPT ![t].t = v, ![t].ops = @ + 1]
         /\ Goto(t, AfterTemperature(v, PollRet(t)))
    /\ UNCHANGED << I2C_LOCK, HEATER_LOCK, STOP_EVENT, stop, heater, heaterTimer,
                    sensors, idx, scanKey, deployment, runVars, auxVars >>

\* rh = self.sensor.relative_humidity, NaN kept when the read raises;
\* I2C_LOCK.release(); return t, rh
PollHumidity(t) ==
    /\ pc[t] = "poll_rh"
    /\ \E v \in {NaN} \cup {<< x >> : x \in BusRH} :
         /\ call' = [call EXCEPT ![t].rh = v, ![t].ops = @ + 1]
         /\ I2C_LOCK' = Release(t, call[t].t = NaN /\ v = NaN)
    /\ Goto(t, PollRet(t))
    /\ UNCHANGED << HEATER_LOCK, STOP_EVENT, stop, heater, heaterTimer,
                    sensors, idx, scanKey, deployment, runVars, auxVars >>

poll(t) ==
    \/ PollAcquire(t)
    \/ PollTemperature(t)
    \/ PollHumidity(t)

----------------------------------------------------------------------------
\* BaseSHT._toggle_heater(state), called at three places: heater on and
\* heater off in run_heater, and the last heater off of run()

ToggleAcquire(t, acq, wr, ret) ==
    /\ Acquire(t, acq, wr, ret)
    /\ UNCHANGED << HEATER_LOCK, STOP_EVENT, stop, heater, heaterTimer,
                    sensors, idx, scanKey, deployment, runVars, auxVars >>

\* self.sensor.heater = state, a write that raises leaves the bit as it was;
\* I2C_LOCK.release()
ToggleWrite(t, state, wr, ret) ==
    /\ pc[t] = wr
    /\ \E ok \in BOOLEAN :
         /\ heater' = IF ok THEN [heater EXCEPT ![Target(t)] = state] ELSE heater
         /\ I2C_LOCK' = Release(t, ~ok)
    /\ call' = [call EXCEPT ![t].ops = @ + 1]
    /\ Goto(t, ret)
    /\ UNCHANGED << HEATER_LOCK, STOP_EVENT, stop, heaterTimer,
                    sensors, idx, scanKey, deployment, runVars, auxVars >>

_toggle_heater(t, state, acq, wr, ret) ==
    \/ ToggleAcquire(t, acq, wr, ret)
    \/ ToggleWrite(t, state, wr, ret)

----------------------------------------------------------------------------
\* SHT30.run: the polling thread of sensor s

\* self._heater_timer = Timer(0.0, self.run_heater); start()
RunStart(s) ==
    /\ pc[RunT(s)] = "start"
    /\ heaterTimer' = [heaterTimer EXCEPT ![s] = TRUE]
    /\ Goto(RunT(s), "loop")
    /\ UNCHANGED << I2C_LOCK, HEATER_LOCK, STOP_EVENT, stop, heater, call,
                    sensors, idx, scanKey, deployment, runVars, auxVars >>

\* while not self.__stop.is_set() ...  (the rest of the loop body, which
\* consumes what poll() returned, touches neither the bus nor a lock)
RunLoop(s) ==
    /\ pc[RunT(s)] = "loop"
    /\ Goto(RunT(s), IF stop[s] THEN "cancel" ELSE "delay")
    /\ call' = [call EXCEPT ![RunT(s)] = NoCall]
    /\ UNCHANGED << I2C_LOCK, HEATER_LOCK, STOP_EVENT, stop, heater, heaterTimer,
                    sensors, idx, scanKey, deployment, runVars, auxVars >>

\* ... and not STOP_EVENT.wait(self.delay(t0)): the wait ends with the event
\* set, or with the delay elapsed and the next call of poll()
RunDelay(s) ==
    /\ pc[RunT(s)] = "delay"
    /\ Goto(RunT(s), IF STOP_EVENT THEN "cancel" ELSE "poll_acquire")
    /\ UNCHANGED << I2C_LOCK, HEATER_LOCK, STOP_EVENT, stop, heater, heaterTimer,
                    call, sensors, idx, scanKey, deployment, runVars, auxVars >>

\* if self._heater_timer: self._heater_timer.cancel()
RunCancel(s) ==
    /\ pc[RunT(s)] = "cancel"
    /\ heaterTimer' = [heaterTimer EXCEPT ![s] = FALSE]
    /\ Goto(RunT(s), "fin_acquire")
    /\ UNCHANGED << I2C_LOCK, HEATER_LOCK, STOP_EVENT, stop, heater, call,
                    sensors, idx, scanKey, deployment, runVars, auxVars >>

\* self._toggle_heater(False), then the log is closed and run() returns
RunHeaterOff(s) == _toggle_heater(RunT(s), FALSE, "fin_acquire", "fin_write", "done")

run(s) ==
    \/ RunStart(s)
    \/ RunLoop(s)
    \/ RunDelay(s)
    \/ RunCancel(s)
    \/ RunHeaterOff(s)

----------------------------------------------------------------------------
\* BaseSHT.run_heater on the Timer thread of sensor s

\* the pending Timer expires and calls run_heater
TimerFire(s) ==
    /\ heaterTimer[s]
    /\ pc[HeatT(s)] = "idle"
    /\ heaterTimer' = [heaterTimer EXCEPT ![s] = FALSE]
    /\ Goto(HeatT(s), "hlock")
    /\ UNCHANGED << I2C_LOCK, HEATER_LOCK, STOP_EVENT, stop, heater, call,
                    sensors, idx, scanKey, deployment, runVars, auxVars >>

\* with self.HEATER_LOCK: (a blocking acquire)
HeaterEnter(s) ==
    /\ pc[HeatT(s)] = "hlock"
    /\ CanAcquire(HEATER_LOCK)
    /\ HEATER_LOCK' = HEATER_LOCK \cup {HeatT(s)}
    /\ Goto(HeatT(s), "on_acquire")
    /\ UNCHANGED << I2C_LOCK, STOP_EVENT, stop, heater, heaterTimer, call,
                    sensors, idx, scanKey, deployment, runVars, auxVars >>

\* self._toggle_heater(True); _ = STOP_EVENT.wait(duration) is the time
\* spent at off_acquire: it ends with the duration elapsed or the event set
HeaterOn(s) == _toggle_heater(HeatT(s), TRUE, "on_acquire", "on_write", "off_acquire")

\* self._toggle_heater(False)
HeaterOff(s) == _toggle_heater(HeatT(s), FALSE, "off_acquire", "off_write", "hunlock")

\* HEATER_LOCK.release() at the end of the with block
LeaveWithBug(lock, t) == lock
LeaveWith(lock, t) == lock \ {t}

\* leaving the with block
HeaterExit(s) ==
    /\ pc[HeatT(s)] = "hunlock"
    /\ HEATER_LOCK' = LeaveWith(HEATER_LOCK, HeatT(s))
    /\ call' = [call EXCEPT ![HeatT(s)] = NoCall]
    /\ Goto(HeatT(s), "resched")
    /\ UNCHANGED << I2C_LOCK, STOP_EVENT, stop, heater, heaterTimer,
                    sensors, idx, scanKey, deployment, runVars, auxVars >>

\* if not STOP_EVENT.is_set():
HeaterCheck(s) ==
    /\ pc[HeatT(s)] = "resched"
    /\ Goto(HeatT(s), IF STOP_EVENT THEN "idle" ELSE "timer_start")
    /\ UNCHANGED << I2C_LOCK, HEATER_LOCK, STOP_EVENT, stop, heater, heaterTimer,
                    call, sensors, idx, scanKey, deployment, runVars, auxVars >>

\* self._heater_timer = Timer(interval, self.run_heater); start(), which are
\* separate statements from the test of STOP_EVENT before them
HeaterReschedule(s) ==
    /\ pc[HeatT(s)] = "timer_start"
    /\ heaterTimer' = [heaterTimer EXCEPT ![s] = TRUE]
    /\ Goto(HeatT(s), "idle")
    /\ UNCHANGED << I2C_LOCK, HEATER_LOCK, STOP_EVENT, stop, heater, call,
                    sensors, idx, scanKey, deployment, runVars, auxVars >>

run_heater(s) ==
    \/ HeaterEnter(s)
    \/ HeaterOn(s)
    \/ HeaterOff(s)
    \/ HeaterExit(s)
    \/ HeaterCheck(s)
    \/ HeaterReschedule(s)

----------------------------------------------------------------------------
\* SSD1306.run: the display thread

\* while not STOP_EVENT.is_set(): ... self.update(self.sensors[idx]) calls
\* sensor.display_text(), which polls the sensor, and draw() follows; the
\* clear() of a display that timed out is a draw() without a poll; after
\* the loop comes a last clear()
DisplayLoop ==
    /\ pc[DispT] = "disp_loop"
    /\ \/ STOP_EVENT /\ Goto(DispT, "clr_acquire")
       \/ ~STOP_EVENT /\ Goto(DispT, "poll_acquire")
       \/ ~STOP_EVENT /\ Goto(DispT, "draw_acquire")
    /\ call' = [call EXCEPT ![DispT] = NoCall]
    /\ UNCHANGED << I2C_LOCK, HEATER_LOCK, STOP_EVENT, stop, heater, heaterTimer,
                    sensors, idx, scanKey, deployment, runVars, auxVars >>

DrawAcquire(acq, show, ret) ==
    /\ Acquire(DispT, acq, show, ret)
    /\ idx' = IF pc'[DispT] = "disp_loop" THEN (idx % deployment.n) + 1 ELSE idx
    /\ UNCHANGED << HEATER_LOCK, STOP_EVENT, stop, heater, heaterTimer,
                    sensors, scanKey, deployment, runVars, auxVars >>

\* self._display.image(self._image); self._display.show(), errors logged;
\* I2C_LOCK.release(); back in run: idx = (idx + 1) % len(self.sensors)
DrawShow(show, ret) ==
    /\ pc[DispT] = show
    /\ call' = [call EXCEPT ![DispT].ops = @ + 1]
    /\ \E ok \in BOOLEAN : I2C_LOCK' = Release(DispT, ~ok)
    /\ Goto(DispT, ret)
    /\ idx' = IF ret = "disp_loop" THEN (idx % deployment.n) + 1 ELSE idx
    /\ UNCHANGED << HEATER_LOCK, STOP_EVENT, stop, heater, heaterTimer,
                    sensors, scanKey, deployment, runVars, auxVars >>

draw ==
    \/ DrawAcquire("draw_acquire", "draw_show", "disp_loop")
    \/ DrawShow("draw_show", "disp_loop")

\* self.clear() after the loop
clear ==
    \/ DrawAcquire("clr_acquire", "clr_show", "done")
    \/ DrawShow("clr_show", "done")

----------------------------------------------------------------------------
\* Sensors.scan_for_sensors on the RepeatedTimer thread.  In this
\* specification every key has one actor slot: a device found again is given
\* a new actor once the previous actor of its key has terminated.

\* Position of the rescan loop when it comes to key k with registry reg.
ScanAt(k, reg) ==
    IF k > deployment.n THEN "scan_idle"
    ELSE IF k \in reg THEN "scan_status" ELSE "scan_mux"

ScanStart ==
    /\ pc[ScanT] = "scan_idle"
    /\ scanKey' = 1
    /\ Goto(ScanT, ScanAt(1, sensors))
    /\ UNCHANGED << I2C_LOCK, HEATER_LOCK, STOP_EVENT, stop, heater, heaterTimer,
                    call, sensors, idx, deployment, runVars, auxVars >>

\* key in self._sensors and self._sensors[key].status is not None
\* (SHT30.status reads the sensor's status register)
ScanStatus ==
    /\ pc[ScanT] = "scan_status"
    /\ \E healthy \in BOOLEAN :
         IF healthy
         THEN /\ scanKey' = IF scanKey < deployment.n THEN scanKey + 1 ELSE 0
              /\ Goto(ScanT, ScanAt(scanKey + 1, sensors))
         ELSE /\ Goto(ScanT, "scan_mux")
              /\ UNCHANGED scanKey
    /\ UNCHANGED << I2C_LOCK, HEATER_LOCK, STOP_EVENT, stop, heater, heaterTimer,
                    call, sensors, idx, deployment, runVars, auxVars >>

\* The actor of key k has terminated: run() returned, no run_heater call is
\* executing and no heater Timer is pending.
Terminated(k) ==
    /\ pc[RunT(k)] = "done"
    /\ pc[HeatT(k)] = "idle"
    /\ ~heaterTimer[k]

\* channel = muxer_device_on_channel(self.muxer, sensor.ADDRESS, channel)
\* and what follows: pop and stop() an actor whose device is gone, construct
\* and start() an actor for a device that was found
ScanMuxer ==
    /\ pc[ScanT] = "scan_mux"
    /\ \E found \in BOOLEAN :
         LET k == scanKey
             new == found /\ Terminated(k)
         IN
         /\ sensors' = IF new THEN sensors \cup {k}
                       ELSE IF found THEN sensors ELSE sensors \ {k}
         /\ stop' = IF new THEN [stop EXCEPT ![k] = FALSE]
                    ELSE IF ~found /\ k \in sensors THEN [stop EXCEPT ![k] = TRUE]
                    ELSE stop
         /\ pc' = [pc EXCEPT ![ScanT] = ScanAt(k + 1, sensors'),
                             ![RunT(k)] = IF new THEN "start" ELSE @]
         /\ call' = IF new THEN [call EXCEPT ![RunT(k)] = NoCall] ELSE call
         /\ scanKey' = IF k < deployment.n THEN k + 1 ELSE 0
    /\ UNCHANGED << I2C_LOCK, HEATER_LOCK, STOP_EVENT, heater, heaterTimer, idx, deployment, runVars, auxVars >>

scan_for_sensors ==
    \/ ScanStart
    \/ ScanStatus
    \/ ScanMuxer

----------------------------------------------------------------------------
\* cli.kill: the SIGINT/SIGTERM handler
kill ==
    /\ ~STOP_EVENT
    /\ STOP_EVENT' = TRUE
    /\ UNCHANGED << I2C_LOCK, HEATER_LOCK, pc, stop, heater, heaterTimer,
                    call, sensors, idx, scanKey, deployment, runVars, auxVars >>

----------------------------------------------------------------------------
\* One sensor actor with its data (SpecRun).  Temperatures are whole degrees,
\* which float32 holds exactly; times are whole seconds.

RESEND == 1800
MIN_NUM_POLL == 10
WindowSeconds == 1800

\* Latest monotonic times at which a loop iteration starts.
ShortRun == 4800
LongRun == 12600
SteadyRun == 2100
\* time.monotonic() when run() starts on a machine that has been up a while.
Uptime == 3600
\* Polls the display thread makes through display_text().
MaxDisplayPolls == 6
\* Longest time a call of sendMail takes, in seconds.
MaxSendTime == 15

None == << >>

Kinds == {"allNaN", "overTemp", "underTemp"}

DEG_F == {"degree_Fahrenheit", "fahrenheit", "degF", "degreeF"}

\* The actors checked.  faults: the bus lock can time out and a read can
\* raise; display: a display thread polls the sensor as well; mail: the
\* settings file holds send_to and send_from (EMailer.check); until: the
\* time span over which the loop is followed; start: time.monotonic() when
\* run() starts.
Thresholds ==
    { [max |-> << -10 >>, min |-> None, temps |-> {-15, -5}],
      [max |-> << -10 >>, min |-> << 0 >>, temps |-> {-15, -5}],
      [max |-> None, min |-> << 0 >>, temps |-> {-5, 5}] }

DisplayedConfigs ==
    { [interval |-> 600, units |-> "degC", max_thres |-> th.max, min_thres |-> th.min,
       mail |-> m, temps |-> th.temps, faults |-> FALSE, display |-> TRUE,
       flaky |-> FALSE, until |-> ShortRun, start |-> st] :
         th \in Thresholds, m \in BOOLEAN, st \in {0, Uptime} }

FaultyConfigs ==
  { [interval |-> 900, units |-> "degC", max_thres |-> << -10 >>, min_thres |-> None,
     mail |-> TRUE, temps |-> {-15, -5}, faults |-> TRUE, display |-> FALSE,
     flaky |-> TRUE, until |-> LongRun, start |-> st] : st \in {0, Uptime} }

SteadyConfigs ==
  { [interval |-> 10, units |-> "degC", max_thres |-> << 15 >>, min_thres |-> None,
     mail |-> TRUE, temps |-> {20}, faults |-> FALSE, display |-> FALSE,
     flaky |-> FALSE, until |-> SteadyRun, start |-> st] : st \in {0, Uptime} }

\* An actor polled once an hour: the interval is longer than the window
SlowConfigs ==
  { [interval |-> 3600, units |-> "degC", max_thres |-> << -10 >>, min_thres |-> None,
     mail |-> TRUE, temps |-> {-15, -5}, faults |-> TRUE, display |-> FALSE,
     flaky |-> FALSE, until |-> LongRun, start |-> st] : st \in {0, Uptime} }

Configs == DisplayedConfigs \cup FaultyConfigs \cup SteadyConfigs \cup SlowConfigs

\* int(30 * 60 / self.interval)
Capacity(interval) == WindowSeconds \div interval

\* numpy.full(n, numpy.nan)
full(n) == [i \in 1..n |-> NaN]

\* numpy.roll(a, shift): the element at i moves to i + shift, cyclically
rollBug(a, shift) == [j \in 1..Len(a) |-> a[((j - 1 + shift) % Len(a)) + 1]]
roll(a, shift) == [j \in 1..Len(a) |-> a[((j - 1 - shift) % Len(a)) + 1]]

\* self.t_30min_avg = numpy.roll(self.t_30min_avg, -1); self.t_30min_avg[-1] = temp
Insert(w, temp) == [roll(w, -1) EXCEPT ![Len(w)] = temp]

\* self.t_30min_avg[-1] = temp is an IndexError on an array of size 0
Stores(w) == Len(w) >= 1

\* The sum of the finite entries w[lo..hi], by halves
RECURSIVE SumRange(_, _, _)
SumRange(w, lo, hi) ==
    IF lo > hi THEN 0
    ELSE IF lo = hi THEN w[lo][1]
    ELSE LET mid == (lo + hi) \div 2
         IN SumRange(w, lo, mid) + SumRange(w, mid + 1, hi)

Sum(w) == SumRange(w, 1, Len(w))

\* numpy.nanmean(w) as the fraction sum / n over the entries that are not
\* NaN; n = 0 stands for the NaN it returns for an all-NaN window
nanmean(w) ==
    LET finite == SelectSeq(w, LAMBDA x : x # NaN)
    IN [sum |-> Sum(finite), n |-> Len(finite)]

isfinite(avg) == avg.n > 0

\* isinstance(thres, (int, float)) and avg > thres / avg < thres
Above(avg, thres) == thres # None /\ avg.sum > thres[1] * avg.n
Below(avg, thres) == thres # None /\ avg.sum < thres[1] * avg.n

\* The if / elif / elif at the end of the loop body: the alert method called.
EvaluateBug(avg, max_thres, min_thres) ==
    IF ~isfinite(avg) THEN "allNaN"
    ELSE IF max_thres # None /\ avg.sum >= max_thres[1] * avg.n THEN "overTemp"
    ELSE IF Below(avg, min_thres) THEN "underTemp"
    ELSE "none"
Evaluate(avg, max_thres, min_thres) ==
    IF ~isfinite(avg) THEN "allNaN"
    ELSE IF Above(avg, max_thres) THEN "overTemp"
    ELSE IF Below(avg, min_thres) THEN "underTemp"
    ELSE "none"

\* What SHT30.poll returns and does to nn: (NaN, NaN) and no count when the
\* lock times out; otherwise nn += 1 and each read gives a value (converted
\* when the unit is a Fahrenheit one) or, when it raises, NaN.
ToUnits(c, v) == IF c.units \in DEG_F THEN (v * 9) \div 5 + 32 ELSE v

PollOutcomes(c) ==
    LET ts == {<< ToUnits(c, v) >> : v \in c.temps} \cup (IF c.faults THEN {NaN} ELSE {})
        rhs == {<< 50 >>} \cup (IF c.faults THEN {NaN} ELSE {})
    IN {[acquired |-> TRUE, t |-> v, rh |-> h] : v \in ts, h \in rhs}
       \cup (IF c.faults THEN {[acquired |-> FALSE, t |-> NaN, rh |-> NaN]} ELSE {})

\* self.nn += 1 comes after the acquire: a poll that timed out is not counted
CountedBug(n, acquired) == n + 1
Counted(n, acquired) == IF acquired THEN n + 1 ELSE n

\* BaseSensor.delay(t0), then STOP_EVENT.wait(delay): the monotonic time at
\* which the wait ends without the event
WakeTime(tnow, tlast, interval) ==
    LET dt == interval - (tnow - tlast)
    IN tnow + (IF dt < 0 THEN 0 ELSE dt)

\* EMailer.check
check(c) == c.mail

\* (time.monotonic() - self.__<kind>) < RESEND
SuppressedBug(last, tnow) == tnow < last
Suppressed(last, tnow) == (tnow - last) < RESEND

\* EMailer.allNaN / overTemp / underTemp called at monotonic time tnow:
\* whether the call gets as far as sendMail
Sends(kind, tnow) ==
    /\ kind \in Kinds
    /\ check(cfg)
    /\ ~Suppressed(lastSent[kind], tnow)

\* EMailer.sendMail ends at its connection, login or sendmail step when the
\* transport fails there, and with the mail sent otherwise
SendSteps(kind, tnow) ==
    IF Sends(kind, tnow) /\ cfg.flaky THEN {"sent", "connect", "login", "send"}
    ELSE {"sent"}

\* The seconds the call spends in sendMail
SendTimes(kind, tnow) == IF Sends(kind, tnow) THEN {0, MaxSendTime} ELSE {0}

\* Whether sendMail lets the exception of a failed step escape: each step is
\* inside its own try/except Exception
RaisesBug(step) == step # "sent"
Raises(step) == FALSE

\* self.__<kind> = time.monotonic() after a sendMail that took d seconds
\* and ended at step
Stamp(kind, tnow, d, step) ==
    IF Sends(kind, tnow) /\ ~Raises(step)
    THEN [lastSent EXCEPT ![kind] = tnow + d] ELSE lastSent

\* What the sendMail of this call leaves behind for its kind
Failure(kind, tnow, d, step) ==
    IF Sends(kind, tnow)
    THEN [lastFail EXCEPT ![kind] = IF step = "sent" THEN None ELSE << tnow + d, step >>]
    ELSE lastFail

\* if self.nn < MIN_NUM_POLL: continue
WarmingUpBug(n) == n < MIN_NUM_POLL * MIN_NUM_POLL * MIN_NUM_POLL
WarmingUp(n) == n < MIN_NUM_POLL

\* if self.nn < MIN_NUM_POLL: continue; avg = numpy.nanmean(...) and the
\* if/elif chain that calls allNaN, overTemp or underTemp
DecideBug(n, w) == Evaluate(nanmean(w), cfg.max_thres, cfg.min_thres)
Decide(n, w) ==
    IF WarmingUp(n) THEN "skip"
    ELSE Evaluate(nanmean(w), cfg.max_thres, cfg.min_thres)

\* The last n entries of a sequence
Recent(q, n) == IF Len(q) <= n THEN q ELSE SubSeq(q, Len(q) - n + 1, Len(q))

\* One iteration of the while loop of SHT30.run.
RunCycle ==
    /\ ~STOP_EVENT
    /\ ~raised
    /\ ~crashed
    /\ LET wake == WakeTime(now, t0, cfg.interval) IN
       /\ wake <= cfg.start + cfg.until
       /\ t0' = wake
       /\ \E o \in PollOutcomes(cfg) :
            /\ nn' = Counted(nn, o.acquired)
            /\ reading' = o
            /\ IF Stores(t_30min_avg)
               THEN /\ t_30min_avg' = Insert(t_30min_avg, o.t)
                    /\ inserted' = Recent(Append(inserted, o.t), Len(t_30min_avg) + 1)
                    /\ requested' = Decide(nn', t_30min_avg')
                    /\ \E d \in SendTimes(requested', wake),
                          step \in SendSteps(requested', wake) :
                         /\ lastSent' = Stamp(requested', wake, d, step)
                         /\ lastFail' = Failure(requested', wake, d, step)
                         /\ raised' = (Sends(requested', wake) /\ Raises(step))
                         /\ sent' = IF Sends(requested', wake)
                                    THEN [sent EXCEPT ![requested'] = Append(@, wake + d)]
                                    ELSE sent
                         /\ now' = IF Sends(requested', wake) THEN wake + d ELSE wake
                    /\ UNCHANGED crashed
               ELSE /\ crashed' = TRUE
                    /\ now' = wake
                    /\ UNCHANGED << t_30min_avg, inserted, requested, lastSent,
                                    lastFail, sent, raised >>
    /\ UNCHANGED << busVars, cfg, dpolls, TLOCK, mpc, cycles, auxVars >>

\* SHT30.display_text on the display thread: temp, rh = self.poll()
DisplayPoll ==
    /\ cfg.display
    /\ ~STOP_EVENT
    /\ dpolls < MaxDisplayPolls
    /\ dpolls' = dpolls + 1
    /\ \E o \in PollOutcomes(cfg) : nn' = Counted(nn, o.acquired)
    /\ UNCHANGED << busVars, cfg, now, t0, t_30min_avg, lastSent, sent, requested,
                    inserted, lastFail, raised, crashed, reading, TLOCK, mpc,
                    cycles, auxVars >>

----------------------------------------------------------------------------
\* The alert path of several sensors (emailer.py): every EMailer method is
\* wrapped by @locked, which runs it under the one module-level TLOCK.

MaxCycles == 4

\* One iteration of SHT30.run up to its if/elif chain: it is complete when
\* no alert method is called, and goes into lockedWrap otherwise
MailCycle(s) ==
    /\ mpc[s] = "loop"
    /\ Len(cycles[s]) < MaxCycles
    /\ \E alert \in BOOLEAN :
         IF alert
         THEN mpc' = [mpc EXCEPT ![s] = "alert"] /\ UNCHANGED cycles
         ELSE cycles' = [cycles EXCEPT ![s] = Append(@, "quiet")] /\ UNCHANGED mpc
    /\ UNCHANGED << cfg, now, t0, nn, t_30min_avg, lastSent, sent, requested,
                    inserted, dpolls, lastFail, raised, crashed, reading, TLOCK,
                    busVars,
                    auxVars >>

\* lockedWrap: with TLOCK: (no timeout), then check() and the RESEND test of
\* the alert method: it returns at once, or goes on to sendMail
lockedWrap(s) ==
    /\ mpc[s] = "alert"
    /\ TLOCK = 0
    /\ \E sends \in BOOLEAN :
         IF sends
         THEN /\ TLOCK' = s
              /\ mpc' = [mpc EXCEPT ![s] = "sending"]
              /\ UNCHANGED cycles
         ELSE /\ cycles' = [cycles EXCEPT ![s] = Append(@, "suppressed")]
              /\ mpc' = [mpc EXCEPT ![s] = "loop"]
              /\ UNCHANGED TLOCK
    /\ UNCHANGED << cfg, now, t0, nn, t_30min_avg, lastSent, sent, requested,
                    inserted, dpolls, lastFail, raised, crashed, reading, busVars,
                    auxVars >>

\* sendMail returns, with the mail sent or with a failure logged; the alert
\* method returns and lockedWrap releases TLOCK
sendMail(s) ==
    /\ mpc[s] = "sending"
    /\ TLOCK' = 0
    /\ mpc' = [mpc EXCEPT ![s] = "loop"]
    /\ cycles' = [cycles EXCEPT ![s] = Append(@, "mailed")]
    /\ UNCHANGED << cfg, now, t0, nn, t_30min_avg, lastSent, sent, requested,
                    inserted, dpolls, lastFail, raised, crashed, reading, busVars,
                    auxVars >>

\* sendMail stalls: smtplib.SMTP_SSL, login and sendmail are called without
\* a timeout, and the server never answers
SendStalls(s) ==
    /\ mpc[s] = "sending"
    /\ mpc' = [mpc EXCEPT ![s] = "stalled"]
    /\ UNCHANGED << cfg, now, t0, nn, t_30min_avg, lastSent, sent, requested,
                    inserted, dpolls, lastFail, raised, crashed, reading, TLOCK,
                    cycles,
                    busVars, auxVars >>

----------------------------------------------------------------------------
\* DailyRotatingCSV (timerotatingcsv.py): the writer thread of one sensor's
\* data_log and the one thread that calls write() and close() on it.

MaxDay == 3
MaxRecords == 4
MaxCloses == 2

\* def __init__(self, csvFile, backupCount=30)
DefaultBackupCount == 30

Days == 0..MaxDay
BackupCounts == {0, 2}

\* self._backup = backupCount if backupCount > 1 else 1
Backup(backupCount) == IF backupCount > 1 THEN backupCount ELSE 1

NoFile == [exists |-> FALSE, lines |-> << >>]

\* open(fpath, mode="a") of the file dated d: created when missing
Open(fs, d) == [fs EXCEPT ![d] = [exists |-> TRUE, lines |-> @.lines]]

\* _removeOld: if (self._date - date).days > self._backup: os.remove(...)
_removeOld(fs, date, backup) ==
    [d \in Days |-> IF fs[d].exists /\ (date - d) > backup THEN NoFile ELSE fs[d]]

\* if date.date() != self._date.date()
Rotates == today # _date[1]

\* _rotateFile: _removeOld() and _initFile() run while self._date is still
\* the day of the previous rotation; self._date = date comes last
RotatedFiles == IF Rotates THEN Open(_removeOld(files, _date[1], _backup), _date[1])
                ELSE files

\* The file self._fid is a handle of when _rotateFile returns
OpenFile == IF Rotates THEN _date[1] ELSE _fid[1]

\* The three self._fid.write calls of _writeData: one line
AppendLineBug(f, id) == [f EXCEPT !.lines = Append(Append(@, id), id)]
AppendLine(f, id) == [f EXCEPT !.lines = Append(@, id)]

\* if not self._closed
AcceptsBug(flag) == TRUE
Accepts(flag) == ~flag

\* self._closed = True
SetClosedBug(flag) == ~flag
SetClosed(flag) == TRUE

\* DailyRotatingCSV.write, called with the reading of one poll
write ==
    /\ nwrites < MaxRecords
    /\ nwrites' = nwrites + 1
    /\ late' = IF closes > 0 THEN late \cup {nwrites'} ELSE late
    /\ IF Accepts(_closed)
       THEN /\ _QUEUE' = Append(_QUEUE, << nwrites', today >>)
            /\ accepted' = Append(accepted, nwrites')
       ELSE UNCHANGED << _QUEUE, accepted >>
    /\ UNCHANGED << _closed, _date, _fid, _backup, files, link, today, wpc, lines,
                    closes, busVars, runVars, regVars, xpc, offTried >>

\* DailyRotatingCSV.close
close ==
    /\ closes < MaxCloses
    /\ closes' = closes + 1
    /\ _closed' = SetClosed(_closed)
    /\ _QUEUE' = Append(_QUEUE, None)
    /\ UNCHANGED << _date, _fid, _backup, files, link, today, wpc, nwrites,
                    accepted, lines, late, busVars, runVars, regVars, xpc, offTried >>

\* The local date changes
Midnight ==
    /\ today < MaxDay
    /\ today' = today + 1
    /\ UNCHANGED << _QUEUE, _closed, _date, _fid, _backup, files, link, wpc,
                    nwrites, accepted, lines, closes, late, busVars, runVars,
                    regVars, xpc, offTried >>

\* run: self._date = datetime.now(); self._initFile()
WriterStart ==
    /\ wpc = "start"
    /\ _date' = << today >>
    /\ files' = Open(files, today)
    /\ _fid' = << today, TRUE >>
    /\ link' = << today >>
    /\ wpc' = "loop"
    /\ UNCHANGED << _QUEUE, _closed, _backup, today, nwrites, accepted, lines,
                    closes, late, busVars, runVars, regVars, xpc, offTried >>

\* run: data = self._QUEUE.get(...); if data is None: break;
\* self._writeData(*data)
WriterGet ==
    /\ wpc = "loop"
    /\ _QUEUE # << >>
    /\ _QUEUE' = Tail(_QUEUE)
    /\ IF Head(_QUEUE) = None
       THEN /\ wpc' = "closing"
            /\ UNCHANGED << _date, _fid, files, link, lines >>
       ELSE /\ files' = [RotatedFiles EXCEPT ![OpenFile] = AppendLine(@, Head(_QUEUE)[1])]
            /\ lines' = Append(lines, [id |-> Head(_QUEUE)[1], day |-> Head(_QUEUE)[2],
                                       at |-> today, file |-> OpenFile])
            /\ _fid' = << OpenFile, TRUE >>
            /\ link' = IF Rotates THEN << _date[1] >> ELSE link
            /\ _date' = << today >>
            /\ wpc' = "loop"
    /\ UNCHANGED << _closed, _backup, today, nwrites, accepted, closes, late,
                    busVars, runVars, regVars, xpc, offTried >>

\* run: self._fid.close()
WriterClose ==
    /\ wpc = "closing"
    /\ _fid' = << _fid[1], FALSE >>
    /\ wpc' = "drain"
    /\ UNCHANGED << _QUEUE, _closed, _date, _backup, files, link, today, nwrites,
                    accepted, lines, closes, late, busVars, runVars, regVars, xpc, offTried >>

\* run: while not self._QUEUE.empty(): _ = self._QUEUE.get()
WriterDrain ==
    /\ wpc = "drain"
    /\ IF _QUEUE = << >>
       THEN wpc' = "done" /\ UNCHANGED _QUEUE
       ELSE _QUEUE' = Tail(_QUEUE) /\ UNCHANGED wpc
    /\ UNCHANGED << _closed, _date, _fid, _backup, files, link, today, nwrites,
                    accepted, lines, closes, late, busVars, runVars, regVars, xpc, offTried >>

\* SHT30.run leaves its loop: the loop condition failed, the pending heater
\* timer is cancelled
ExitLoop ==
    /\ xpc = "loop"
    /\ xpc' = "off"
    /\ UNCHANGED << _QUEUE, _closed, _date, _fid, _backup, files, link, today, wpc,
                    nwrites, accepted, lines, closes, late, offTried, busVars,
                    runVars, regVars >>

\* self._toggle_heater(False): made whether or not the bus lock is obtained
ExitHeaterOff ==
    /\ xpc = "off"
    /\ offTried' = TRUE
    /\ xpc' = "close"
    /\ UNCHANGED << _QUEUE, _closed, _date, _fid, _backup, files, link, today, wpc,
                    nwrites, accepted, lines, closes, late, busVars, runVars,
                    regVars >>

\* self.data_log.close()
ExitClose ==
    /\ xpc = "close"
    /\ closes' = closes + 1
    /\ _closed' = SetClosed(_closed)
    /\ _QUEUE' = Append(_QUEUE, None)
    /\ xpc' = "join"
    /\ UNCHANGED << _date, _fid, _backup, files, link, today, wpc, nwrites,
                    accepted, lines, late, offTried, busVars, runVars, regVars >>

\* Thread.join() returns once the thread's run has returned
JoinReturnsBug(w) == TRUE
JoinReturns(w) == w = "done"

\* self.data_log.join(), and run() returns
ExitJoin ==
    /\ xpc = "join"
    /\ JoinReturns(wpc)
    /\ xpc' = "returned"
    /\ UNCHANGED << _QUEUE, _closed, _date, _fid, _backup, files, link, today, wpc,
                    nwrites, accepted, lines, closes, late, offTried, busVars,
                    runVars, regVars >>

----------------------------------------------------------------------------
\* Sensors (sensors/__init__.py): the registry, its rescans, and the actors
\* (SHT30 threads with their data_log) the rescans start and stop.

MaxActors == 3
NumKeys == 2

\* The 'sensor.<channel>.<type>' keys of the settings file
Keys == 1..NumKeys

NoOutcome == [key |-> 0, status |-> None, scanned |-> FALSE, act |-> "none", actor |-> 0]

\* SHT30.status: self.sensor.status, or None when the read raises
Statuses(k) == IF k \in device THEN {<< 0 >>, None} ELSE {None}

\* muxer_device_on_channel(...): [channel] when the device answers the scan,
\* [] when it does not or when the channel's try_lock fails
Found(k) == IF k \in device THEN {TRUE, FALSE} ELSE {FALSE}

\* SHT30.__init__, BaseSensor.__init__ (data_log) and Thread.start
NewActor(k) == [key |-> k, stop |-> FALSE, pos |-> "loop", log |-> "open",
                popped |-> FALSE]

\* self._sensors[key].status is not None
HealthyBug(st) == FALSE
Healthy(st) == st # None

\* SHT30.stop: self.__stop.set()
stopBug(a) == a
stopActor(a) == [a EXCEPT !.stop = TRUE]

\* The rescan moves on to the next settings key, or releases SCAN_LOCK
NextKey == IF rk < NumKeys THEN rk + 1 ELSE 0

Advance ==
    /\ rk' = NextKey
    /\ rpc' = "status"
    /\ SCAN_LOCK' = (NextKey # 0)

\* What the settings file holds for key k at this rescan: a well-formed
\* entry, a type get_sensor_obj() does not know, a key that key.split('.')
\* or int(channel) cannot take apart, or an info the constructor rejects.
\* A registered key was taken apart and typed when its actor was made.
Entries(k) ==
    IF registry[k] # 0 THEN {"ok", "badInfo"}
    ELSE {"ok", "unknownType", "badKey", "badInfo"}

\* An exception leaves scan_for_sensors: no later key is handled and the
\* release() of its last line is not reached
Abort ==
    /\ rk' = 0
    /\ rpc' = "status"
    /\ UNCHANGED SCAN_LOCK

\* SCAN_LOCK.acquire(timeout=LOCK_TIMEOUT); settings = load_settings()
RescanStart ==
    /\ rk = 0
    /\ ~SCAN_LOCK
    /\ jpc \notin {"joining", "done"}
    /\ SCAN_LOCK' = TRUE
    /\ \E loaded \in BOOLEAN : rk' = IF loaded THEN 1 ELSE 0
    /\ rpc' = "status"
    /\ UNCHANGED << registry, actors, device, outcome, jpc, joinee, view,
                    busVars, runVars, logVars, timerVars >>

\* if key in self._sensors and self._sensors[key].status is not None: continue
RescanStatus ==
    /\ rk # 0
    /\ rpc = "status"
    /\ IF registry[rk] = 0
       THEN /\ rpc' = "mux"
            /\ UNCHANGED << SCAN_LOCK, rk, outcome >>
       ELSE \E st \in Statuses(rk) :
              /\ outcome' = [key |-> rk, status |-> st, scanned |-> FALSE,
                             act |-> IF Healthy(st) THEN "skip" ELSE "check",
                             actor |-> registry[rk]]
              /\ IF Healthy(st)
                 THEN Advance
                 ELSE rpc' = "mux" /\ UNCHANGED << SCAN_LOCK, rk >>
    /\ UNCHANGED << registry, actors, device, jpc, joinee, view, busVars,
                    runVars, logVars, timerVars >>

\* key.split('.') and int(channel); get_sensor_obj(stype);
\* channel = muxer_device_on_channel(...); if len(channel) != 1: pop and
\* stop() the registered actor; else construct, start() and register one
RescanMuxer ==
    /\ rk # 0
    /\ rpc = "mux"
    /\ \E e \in Entries(rk), found \in Found(rk) :
         CASE e = "badKey" ->
                /\ ~found
                /\ outcome' = [key |-> rk, status |-> None, scanned |-> FALSE,
                               act |-> "raised", actor |-> 0]
                /\ Abort
                /\ UNCHANGED << registry, actors >>
           [] e = "unknownType" ->
                /\ ~found
                /\ outcome' = [key |-> rk, status |-> None, scanned |-> FALSE,
                               act |-> "unknown", actor |-> 0]
                /\ Advance
                /\ UNCHANGED << registry, actors >>
           [] e \in {"ok", "badInfo"} /\ ~found ->
                /\ e = "ok"
                /\ IF registry[rk] # 0
                   THEN /\ registry' = [registry EXCEPT ![rk] = 0]
                        /\ actors' = [actors EXCEPT ![registry[rk]] =
                                         [stopActor(@) EXCEPT !.popped = TRUE]]
                        /\ outcome' = [key |-> rk, status |-> None, scanned |-> TRUE,
                                       act |-> "stopped", actor |-> registry[rk]]
                   ELSE /\ outcome' = [key |-> rk, status |-> None, scanned |-> TRUE,
                                       act |-> "missing", actor |-> 0]
                        /\ UNCHANGED << registry, actors >>
                /\ Advance
           [] e = "badInfo" /\ found ->
                /\ outcome' = [key |-> rk, status |-> None, scanned |-> TRUE,
                               act |-> "raised", actor |-> 0]
                /\ Abort
                /\ UNCHANGED << registry, actors >>
           [] e = "ok" /\ found ->
                /\ Len(actors) < MaxActors
                /\ actors' = Append(actors, NewActor(rk))
                /\ registry' = [registry EXCEPT ![rk] = Len(actors) + 1]
                /\ outcome' = [key |-> rk, status |-> None, scanned |-> TRUE,
                               act |-> "started", actor |-> Len(actors) + 1]
                /\ Advance
    /\ UNCHANGED << device, jpc, joinee, view, busVars, runVars, logVars,
                    timerVars >>

\* SHT30.run: the loop condition fails once __stop or STOP_EVENT is set
ActorLeaveLoop(a) ==
    /\ a \in 1..Len(actors)
    /\ actors[a].pos = "loop"
    /\ actors[a].stop \/ STOP_EVENT
    /\ actors' = [actors EXCEPT ![a].pos = "exiting"]
    /\ UNCHANGED << SCAN_LOCK, registry, device, rk, rpc, outcome, jpc,
                    joinee, view, busVars,
                    runVars, logVars, timerVars >>

\* SHT30.run after the loop: heater off, data_log.close(), data_log.join()
ActorExit(a) ==
    /\ a \in 1..Len(actors)
    /\ actors[a].pos = "exiting"
    /\ actors' = [actors EXCEPT ![a].pos = "dead", ![a].log = "closed"]
    /\ UNCHANGED << SCAN_LOCK, registry, device, rk, rpc, outcome, jpc,
                    joinee, view, busVars,
                    runVars, logVars, timerVars >>

\* A sensor is plugged in or unplugged
Plug ==
    /\ \E k \in Keys : device' = IF k \in device THEN device \ {k} ELSE device \cup {k}
    /\ UNCHANGED << SCAN_LOCK, registry, actors, rk, rpc, outcome, jpc,
                    joinee, view, busVars,
                    runVars, logVars, timerVars >>

\* What a reader of the registry last did: the operation, and whether a
\* rescan was between its keys at that moment
NoView == [op |-> "none", scanning |-> FALSE]

\* Sensors.__len__: with self.SCAN_LOCK: return len(self._sensors)
__len__ ==
    /\ ~SCAN_LOCK
    /\ view' = [op |-> "len", scanning |-> rk # 0]
    /\ UNCHANGED << SCAN_LOCK, registry, actors, device, rk, rpc, outcome, jpc,
                    joinee, busVars, runVars, logVars, timerVars >>

\* Whether `if self.SCAN_LOCK:` lets __iter__ go on: the test is the truth
\* value of the Lock object, which is always true, and acquires nothing
IterGoesOn(held) == TRUE

\* Sensors.__iter__: if self.SCAN_LOCK: return list(self._sensors.values())
__iter__ ==
    /\ IterGoesOn(SCAN_LOCK)
    /\ view' = [op |-> "iter", scanning |-> rk # 0]
    /\ UNCHANGED << SCAN_LOCK, registry, actors, device, rk, rpc, outcome, jpc,
                    joinee, busVars, runVars, logVars, timerVars >>

\* RepeatedTimer (utils.py), the rescanner of Sensors: the Timer objects it
\* makes are numbered in order of construction; each one that expires runs
\* _run in a thread of its own, and another thread calls stop().

MaxTimers == 3

\* A Timer expires: its thread calls self._run
Expire(i) ==
    /\ i \in pending
    /\ pending' = pending \ {i}
    /\ cb' = [cb EXCEPT ![i] = "flag"]
    /\ UNCHANGED << _timer, cancelled, is_running, spc, made, calledAfterStop,
                    SCAN_LOCK, registry, actors, device, rk, rpc, outcome, jpc,
                    joinee, view, busVars, runVars, logVars >>

\* RepeatedTimer._run, statement by statement: self.is_running = False;
\* start(): if not self.is_running: self._timer = Timer(...);
\* self._timer.start(); self.is_running = True; then self.function(...)
_run(i) ==
    /\ \/ /\ cb[i] = "flag"
          /\ is_running' = FALSE
          /\ cb' = [cb EXCEPT ![i] = "check"]
          /\ UNCHANGED << _timer, pending, made, calledAfterStop >>
       \/ /\ cb[i] = "check"
          /\ cb' = [cb EXCEPT ![i] = IF is_running THEN "fn" ELSE "create"]
          /\ UNCHANGED << _timer, pending, is_running, made, calledAfterStop >>
       \/ /\ cb[i] = "create"
          /\ made < MaxTimers
          /\ made' = made + 1
          /\ _timer' = made + 1
          /\ cb' = [cb EXCEPT ![i] = "arm"]
          /\ UNCHANGED << pending, is_running, calledAfterStop >>
       \/ /\ cb[i] = "arm"
          /\ pending' = IF _timer \in cancelled THEN pending ELSE pending \cup {_timer}
          /\ cb' = [cb EXCEPT ![i] = "set"]
          /\ UNCHANGED << _timer, is_running, made, calledAfterStop >>
       \/ /\ cb[i] = "set"
          /\ is_running' = TRUE
          /\ cb' = [cb EXCEPT ![i] = "fn"]
          /\ UNCHANGED << _timer, pending, made, calledAfterStop >>
       \/ /\ cb[i] = "fn"
          /\ calledAfterStop' = (calledAfterStop \/ spc = "returned")
          /\ cb' = [cb EXCEPT ![i] = "done"]
          /\ UNCHANGED << _timer, pending, is_running, made >>
    /\ UNCHANGED << cancelled, spc, SCAN_LOCK, registry, actors, device, rk, rpc,
                    outcome, jpc, joinee, view, busVars, runVars, logVars >>

\* RepeatedTimer.stop: self._timer.cancel(); self.is_running = False
stopTimer ==
    /\ \/ /\ spc = "idle"
          /\ cancelled' = cancelled \cup {_timer}
          /\ pending' = pending \ {_timer}
          /\ spc' = "flag"
          /\ UNCHANGED is_running
       \/ /\ spc = "flag"
          /\ is_running' = FALSE
          /\ spc' = "returned"
          /\ UNCHANGED << cancelled, pending >>
    /\ UNCHANGED << _timer, cb, made, calledAfterStop, SCAN_LOCK, registry, actors,
                    device, rk, rpc, outcome, jpc, joinee, view, busVars, runVars,
                    logVars >>

\* The shutdown sequence calls Sensors.join()
JoinCall ==
    /\ jpc = "idle"
    /\ STOP_EVENT
    /\ jpc' = "lock"
    /\ UNCHANGED << SCAN_LOCK, registry, actors, device, rk, rpc, outcome,
                    joinee, view, busVars, runVars, logVars, timerVars >>

\* with self.SCAN_LOCK: (no timeout); self._rescanner.stop()
JoinEnter ==
    /\ jpc = "lock"
    /\ ~SCAN_LOCK
    /\ SCAN_LOCK' = TRUE
    /\ jpc' = "joining"
    /\ UNCHANGED << registry, actors, device, rk, rpc, outcome, joinee,
                    view, busVars, runVars, logVars, timerVars >>

\* for key in list(self._sensors.keys()): self._sensors.pop(key)
JoinPop ==
    /\ jpc = "joining"
    /\ joinee = 0
    /\ \E k \in Keys :
         /\ registry[k] # 0
         /\ \A j \in Keys : j < k => registry[j] = 0
         /\ registry' = [registry EXCEPT ![k] = 0]
         /\ joinee' = registry[k]
    /\ UNCHANGED << SCAN_LOCK, actors, device, rk, rpc, outcome, jpc, view,
                    busVars,
                    runVars, logVars, timerVars >>

\* .join() of the popped actor returns once its thread has ended
JoinActor ==
    /\ jpc = "joining"
    /\ joinee # 0
    /\ actors[joinee].pos = "dead"
    /\ joinee' = 0
    /\ UNCHANGED << SCAN_LOCK, registry, actors, device, rk, rpc, outcome, jpc,
                    view, busVars, runVars, logVars, timerVars >>

\* The end of the with block releases SCAN_LOCK and join() returns
JoinReturn ==
    /\ jpc = "joining"
    /\ joinee = 0
    /\ \A k \in Keys : registry[k] = 0
    /\ SCAN_LOCK' = FALSE
    /\ jpc' = "done"
    /\ UNCHANGED << registry, actors, device, rk, rpc, outcome, joinee,
                    view, busVars, runVars, logVars, timerVars >>

----------------------------------------------------------------------------
\* The state after construction

BusInit(d) ==
    /\ deployment = d
    /\ I2C_LOCK = {}
    /\ HEATER_LOCK = {}
    /\ STOP_EVENT = FALSE
    /\ pc = [t \in Threads |->
               CASE t[1] = "run" -> IF t[2] <= d.n THEN "start" ELSE "absent"
                 [] t[1] = "heat" -> "idle"
                 [] t[1] = "disp" -> IF d.display THEN "disp_loop" ELSE "absent"
                 [] OTHER -> IF d.rescan THEN "scan_idle" ELSE "absent"]
    /\ stop = [s \in SensorIds |-> FALSE]
    /\ heater = [s \in SensorIds |-> FALSE]
    /\ heaterTimer = [s \in SensorIds |-> FALSE]
    /\ call = [t \in Threads |-> NoCall]
    /\ sensors = 1..d.n
    /\ idx = 1
    /\ scanKey = 0

\* EMailer.__init__, BaseSHT.__init__, SHT30.__init__ and the first lines of run
RunInit(c) ==
    /\ cfg = c
    /\ now = c.start
    /\ t0 = 0
    /\ nn = 0
    /\ t_30min_avg = full(Capacity(c.interval))
    /\ lastSent = [k \in Kinds |-> -RESEND]
    /\ sent = [k \in Kinds |-> << >>]
    /\ requested = "skip"
    /\ inserted = << >>
    /\ dpolls = 0
    /\ lastFail = [k \in Kinds |-> None]
    /\ raised = FALSE
    /\ crashed = FALSE
    /\ reading = [acquired |-> TRUE, t |-> NaN, rh |-> NaN]
    /\ TLOCK = 0
    /\ mpc = [s \in SensorIds |-> "loop"]
    /\ cycles = [s \in SensorIds |-> << >>]

\* DailyRotatingCSV.__init__ in an empty data directory
LogInit(backupCount) ==
    /\ _QUEUE = << >>
    /\ _closed = FALSE
    /\ _date = None
    /\ _fid = None
    /\ _backup = Backup(backupCount)
    /\ files = [d \in Days |-> NoFile]
    /\ link = None
    /\ today = 0
    /\ wpc = "start"
    /\ nwrites = 0
    /\ accepted = << >>
    /\ lines = << >>
    /\ closes = 0
    /\ late = {}
    /\ xpc = "loop"
    /\ offTried = FALSE

\* Sensors.__init__ up to its first scan_for_sensors(), with the devices
\* of dev plugged in
RegInit(dev) ==
    /\ SCAN_LOCK = FALSE
    /\ registry = [k \in Keys |-> 0]
    /\ actors = << >>
    /\ device = dev
    /\ rk = 0
    /\ rpc = "status"
    /\ outcome = NoOutcome
    /\ jpc = "idle"
    /\ joinee = 0
    /\ view = NoView
    /\ _timer = 1
    /\ pending = {1}
    /\ cancelled = {}
    /\ is_running = TRUE
    /\ cb = [i \in 1..MaxTimers |-> "none"]
    /\ spc = "idle"
    /\ made = 1
    /\ calledAfterStop = FALSE

DefaultDeployment == CHOOSE d \in Deployments : d.rescan

InitBus ==
    /\ \E d \in Deployments : BusInit(d)
    /\ RunInit(CHOOSE c \in SteadyConfigs : c.start = 0)
    /\ LogInit(DefaultBackupCount)
    /\ RegInit(Keys)

NextBus ==
    \/ \E s \in SensorIds : run(s)
    \/ \E s \in SensorIds : TimerFire(s)
    \/ \E s \in SensorIds : run_heater(s)
    \/ \E t \in PollCallers : poll(t)
    \/ DisplayLoop
    \/ draw
    \/ clear
    \/ scan_for_sensors
    \/ kill

SpecBus == InitBus /\ [][NextBus]_vars

InitRun ==
    /\ BusInit(DefaultDeployment)
    /\ \E c \in Configs : RunInit(c)
    /\ LogInit(DefaultBackupCount)
    /\ RegInit(Keys)

NextRun ==
    \/ RunCycle
    \/ DisplayPoll
    \/ kill

SpecRun == InitRun /\ [][NextRun]_vars

InitMail ==
    /\ BusInit(DefaultDeployment)
    /\ RunInit(CHOOSE c \in SteadyConfigs : c.start = 0)
    /\ LogInit(DefaultBackupCount)
    /\ RegInit(Keys)

NextMail ==
    \/ \E s \in SensorIds : MailCycle(s)
    \/ \E s \in SensorIds : lockedWrap(s)
    \/ \E s \in SensorIds : sendMail(s)
    \/ \E s \in SensorIds : SendStalls(s)

SpecMail == InitMail /\ [][NextMail]_vars

InitLog ==
    /\ BusInit(DefaultDeployment)
    /\ RunInit(CHOOSE c \in SteadyConfigs : c.start = 0)
    /\ \E bc \in BackupCounts : LogInit(bc)
    /\ RegInit(Keys)

NextLog ==
    \/ write
    \/ close
    \/ Midnight
    \/ WriterStart
    \/ WriterGet
    \/ WriterClose
    \/ WriterDrain
    \/ ExitLoop
    \/ ExitHeaterOff
    \/ ExitClose
    \/ ExitJoin

SpecLog == InitLog /\ [][NextLog]_vars

InitReg ==
    /\ BusInit(DefaultDeployment)
    /\ RunInit(CHOOSE c \in SteadyConfigs : c.start = 0)
    /\ LogInit(DefaultBackupCount)
    /\ \E dev \in SUBSET Keys : RegInit(dev)

NextReg ==
    \/ RescanStart
    \/ RescanStatus
    \/ RescanMuxer
    \/ \E a \in 1..MaxActors : ActorLeaveLoop(a)
    \/ \E a \in 1..MaxActors : ActorExit(a)
    \/ Plug
    \/ kill

SpecReg == InitReg /\ [][NextReg]_vars

\* The actor threads and the rescan make progress: every wait of SHT30.run
\* and of its exit path is bounded by a timeout or by the writer's sentinel
SpecRegLive ==
    /\ SpecReg
    /\ \A a \in 1..MaxActors : WF_vars(ActorLeaveLoop(a)) /\ WF_vars(ActorExit(a))

\* The registry with a shutdown sequence that calls Sensors.join()
NextJoin ==
    \/ NextReg
    \/ JoinCall
    \/ JoinEnter
    \/ JoinPop
    \/ JoinActor
    \/ JoinReturn

SpecJoin == InitReg /\ [][NextJoin]_vars

\* The registry with a thread that counts and iterates it
NextRead ==
    \/ NextReg
    \/ __len__
    \/ __iter__

SpecRead == InitReg /\ [][NextRead]_vars

\* The rescanner alone, with a thread that stops it
NextTimer ==
    \/ \E i \in 1..MaxTimers : Expire(i)
    \/ \E i \in 1..MaxTimers : _run(i)
    \/ stopTimer

SpecTimer == InitReg /\ [][NextTimer]_vars

\* Fair scheduling: every thread that can take a step takes one, the rescan
\* and join() included, and a thread waiting for SCAN_LOCK gets it when the
\* lock is free again and again
SpecJoinFair ==
    /\ SpecJoin
    /\ \A a \in 1..MaxActors : WF_vars(ActorLeaveLoop(a)) /\ WF_vars(ActorExit(a))
    /\ WF_vars(RescanStatus) /\ WF_vars(RescanMuxer)
    /\ WF_vars(JoinCall) /\ SF_vars(JoinEnter)
    /\ WF_vars(JoinPop) /\ WF_vars(JoinActor) /\ WF_vars(JoinReturn)

----------------------------------------------------------------------------
\* Properties of the bus (SpecBus)

\* C1: in every reachable state at most one thread holds I2C_LOCK, whatever
\* the interleaving of the callers of poll(), _toggle_heater() and draw().
C1_MutualExclusion == Cardinality(I2C_LOCK) <= 1

\* A sensor thread is inside poll() with the lock while a heater thread and
\* the display thread stand at their acquire.
C1_Contended ==
    \E s \in SensorIds :
      /\ RunT(s) \in I2C_LOCK
      /\ pc[RunT(s)] = "poll_rh"
      /\ pc[HeatT(s)] = "on_acquire"
      /\ pc[DispT] = "draw_acquire"

\* C2: every thread about to do a bus transaction (temperature or humidity
\* read, heater write, display write, the rescan's status read and muxer
\* channel scan) holds I2C_LOCK.
C2_BusOpsUnderLock == \A t \in Threads : pc[t] \in BusOpPc => t \in I2C_LOCK

\* C3: a thread that is not between the acquire and the release of poll(),
\* _toggle_heater() or draw() does not hold I2C_LOCK: each of them has
\* released the lock when it returns, whether its bus accesses succeeded or
\* raised.
C3_ReleasedOnReturn == \A t \in Threads : t \in I2C_LOCK => pc[t] \in LockedPc

\* poll() has returned (NaN, NaN) after both reads raised, and a heater
\* toggle has returned from a write that did not take effect.
C3_AllFailedReturned ==
    \E s \in SensorIds :
      /\ pc[RunT(s)] = "loop"
      /\ call[RunT(s)] = [timedOut |-> FALSE, ops |-> 2, t |-> NaN, rh |-> NaN]
      /\ pc[HeatT(s)] = "off_acquire"
      /\ call[HeatT(s)].ops = 1
      /\ ~heater[s]

\* C4: a call of poll(), _toggle_heater() or draw() whose acquire timed out
\* has returned: it has done no bus transaction, holds no lock, and poll()
\* gave back (NaN, NaN).
C4_TimeoutSkips ==
    \A t \in Threads :
      call[t].timedOut =>
        /\ call[t].ops = 0
        /\ call[t].t = NaN
        /\ call[t].rh = NaN
        /\ pc[t] \in ReturnPc
        /\ pc[t] \notin BusOpPc
        /\ t \notin I2C_LOCK

\* poll() of a sensor thread and the heater-on toggle of a heater thread
\* have both timed out; the heater bit is as it was.
C4_TimedOut ==
    \E s, h \in SensorIds :
      /\ pc[RunT(s)] = "loop"
      /\ call[RunT(s)].timedOut
      /\ pc[HeatT(h)] = "off_acquire"
      /\ call[HeatT(h)].timedOut
      /\ ~heater[h]

\* C5: at most one sensor of the fleet has its heater bit on.
C5_AtMostOneHeater == Cardinality({s \in SensorIds : heater[s]}) <= 1

----------------------------------------------------------------------------
\* Properties of the polling loop (SpecRun)

\* C6: the window always has the capacity it was built with, is all NaN
\* before the first insertion, and holds the most recent temperatures
\* inserted by the loop, oldest first (NaN in front until it has filled).
C6_WindowFIFO ==
    LET N == Capacity(cfg.interval)
        padded == [i \in 1..N |-> NaN] \o inserted
    IN /\ Len(t_30min_avg) = N
       /\ \A i \in 1..N : t_30min_avg[i] = padded[Len(padded) - N + i]

\* A window of three that has seen four insertions, holding two different
\* temperatures.
C6_Rolled ==
    /\ Len(t_30min_avg) = 3
    /\ Len(inserted) = 4
    /\ t_30min_avg[1] # NaN
    /\ t_30min_avg[2] # NaN
    /\ t_30min_avg[1] # t_30min_avg[2]
    /\ t_30min_avg[2] # t_30min_avg[3]

\* C7: two sends of one kind are at least RESEND apart, and (with a
\* configured mailer) a cycle that finds the window all NaN after the
\* warm-up has an AllNaN send within the RESEND seconds up to it, which by
\* the first part is the only one.
C7_RateLimited ==
    /\ \A k \in Kinds : \A i, j \in 1..Len(sent[k]) :
         i < j => sent[k][j] - sent[k][i] >= RESEND
    /\ (requested = "allNaN" /\ check(cfg)) =>
         \E i \in 1..Len(sent.allNaN) :
           /\ sent.allNaN[i] <= now
           /\ now - sent.allNaN[i] < RESEND

\* AllNaN has been sent twice and the cycle just done asked for it again
\* within the resend window of the second.
C7_Suppressed ==
    /\ Len(sent.allNaN) = 2
    /\ requested = "allNaN"
    /\ sent.allNaN[2] < now

\* C8: an actor with max_thres set never calls underTemp.
C8_NoUnderTempWithMax == cfg.max_thres # None => requested # "underTemp"

\* C9: with max_thres set and min_thres absent, a cycle past the warm-up
\* whose window mean is finite calls overTemp exactly when the mean is above
\* max_thres, and never calls underTemp.
C9_OverTempIffAbove ==
    LET vals == SelectSeq(t_30min_avg, LAMBDA x : x # NaN)
    IN (/\ cfg.max_thres # None
        /\ cfg.min_thres = None
        /\ requested # "skip"
        /\ vals # << >>)
       => /\ requested = "overTemp" <=> Sum(vals) > cfg.max_thres[1] * Len(vals)
          /\ requested # "underTemp"

\* The mean is exactly max_thres (-15 and -5 against -10) and nothing was
\* asked for.
C9_AtThreshold ==
    /\ cfg.max_thres = << -10 >>
    /\ cfg.min_thres = None
    /\ t_30min_avg \in {<< << -15 >>, << -5 >> >>, << << -5 >>, << -15 >> >>}
    /\ requested = "none"

\* The steady actor (20 degrees at every poll, every 10 s, max_thres 15) has
\* done the last poll of its 35 minutes.
SteadyDone ==
    /\ cfg \in SteadyConfigs
    /\ t0 + cfg.interval > cfg.start + cfg.until

\* C10 as stated: after the 35 minutes exactly one OverTemp has been sent.
C10_ExactlyOne == SteadyDone => Len(sent.overTemp) = 1

\* C10: after the 35 minutes exactly two OverTemp have been sent, the
\* first at the tenth poll and the second RESEND or more later.
C10_ExactlyTwo ==
    SteadyDone =>
      /\ Len(sent.overTemp) = 2
      /\ sent.overTemp[1] - cfg.start <= MIN_NUM_POLL * cfg.interval + MaxSendTime
      /\ sent.overTemp[2] - sent.overTemp[1] >= RESEND

C10_SteadyDoneTwice == SteadyDone /\ Len(sent.overTemp) = 2 /\ nn > MIN_NUM_POLL

----------------------------------------------------------------------------
\* Properties of the log writer (SpecLog)

\* The ids of the lines written so far, in the order of writing
LineIds == [i \in 1..Len(lines) |-> lines[i].id]

\* The ids of the records waiting in the queue, in queue order
QueuedIds ==
    LET recs == SelectSeq(_QUEUE, LAMBDA x : x # None)
    IN [i \in 1..Len(recs) |-> recs[i][1]]

\* The ids of the lines written to the file dated d
LinesOf(d) ==
    LET ls == SelectSeq(lines, LAMBDA l : l.file = d)
    IN [i \in 1..Len(ls) |-> ls[i].id]

\* C11: while the writer is open every call of write() (one per iteration
\* of the polling loop) puts exactly one record into the queue, the call is
\* possible whatever the writer thread is doing (it never waits for the disk),
\* and every record taken from the queue is exactly one line of one file:
\* the lines written followed by the records still queued are the accepted
\* records, and each file holds exactly the lines written to it.
C11_OneLinePerRecord ==
    /\ closes = 0 => accepted = [i \in 1..nwrites |-> i]
    /\ LineIds \o QueuedIds = accepted
    /\ \A d \in Days : files[d].exists => files[d].lines = LinesOf(d)
    /\ nwrites < MaxRecords => ENABLED write

\* C11 witness: all the polls have written, some records are lines of a file
\* and another is still queued.
C11_SomeWrittenSomeQueued ==
    /\ closes = 0
    /\ nwrites = MaxRecords
    /\ Len(lines) >= 2
    /\ QueuedIds # << >>

\* C12: when the last two lines were written on consecutive local days (one
\* record on each side of the date boundary), the directory holds a dated
\* file for each of the two days and the stable name is a link to the file
\* of the newer day.
C12_TwoDatedFiles ==
    LET n == Len(lines) IN
    (n >= 2 /\ lines[n].at = lines[n - 1].at + 1) =>
        /\ files[lines[n - 1].at].exists
        /\ files[lines[n].at].exists
        /\ link = << lines[n].at >>

\* C13: once the writer has rotated to the current day (self._date is
\* today), no dated file is more than self._backup calendar days older than
\* today.
C13_Retention ==
    (_date = << today >>) =>
        \A d \in Days : files[d].exists => today - d <= _backup

\* C14: once the writer thread has taken the sentinel of close() (it is about
\* to close the handle, has closed it, or has exited) the lines written are
\* exactly the records write() accepted, in the order they were enqueued;
\* and no write() called after a close() is ever accepted or queued.
C14_DrainOnClose ==
    /\ wpc \in {"closing", "drain", "done"} => LineIds = accepted
    /\ \A i \in 1..Len(accepted) : accepted[i] \notin late
    /\ \A i \in 1..Len(QueuedIds) : QueuedIds[i] \notin late

\* C14 witness: the writer has exited with its handle closed after writing
\* two or more records, and a write() came after the close().
C14_DrainedAndExited ==
    /\ wpc = "done"
    /\ ~_fid[2]
    /\ Len(lines) >= 2
    /\ late # {}

\* C15: a second or later close() changes neither the files, the stable
\* name, the closed flag, the handle nor the position of the writer thread,
\* and no step taken after the writer has seen the first sentinel writes to a
\* file or brings the writer back into its loop; close() itself is possible
\* in every state (it waits for nothing).
C15_CloseIdempotent ==
    [][/\ (closes >= 1 /\ closes' = closes + 1) =>
              UNCHANGED << files, link, lines, accepted, _closed, _fid, _date, wpc >>
       /\ wpc \in {"closing", "drain", "done"} =>
              /\ UNCHANGED << files, link, lines >>
              /\ wpc' \in {"closing", "drain", "done"}
       /\ (closes < MaxCloses) => ENABLED close]_vars

\* C15 witness: close() was called twice, the second time after the writer
\* thread had exited (its sentinel is still in the queue), and the file has
\* lines.
C15_ClosedTwice ==
    /\ closes = 2
    /\ wpc = "done"
    /\ _QUEUE = << None >>
    /\ lines # << >>

----------------------------------------------------------------------------
\* Properties of the registry (SpecReg)

\* C16: when the rescan reads a non-None status from the registered actor of
\* the key it is at, that step leaves the registry and every actor (its
\* position, stop flag and log writer) unchanged, does no muxer scan for the
\* key and goes on to the next key; the rescan is never at the muxer scan of
\* a registered key whose status it has just read as non-None.
C16_NoChurn ==
    [][/\ (/\ rk # 0 /\ rpc = "status" /\ registry[rk] # 0
           /\ (rk' # rk \/ rpc' # rpc) /\ outcome'.status # None)
          => /\ registry' = registry
             /\ actors' = actors
             /\ ~outcome'.scanned
             /\ rpc' = "status"
             /\ rk' = NextKey
       /\ ~(/\ rk # 0 /\ rpc = "mux" /\ registry[rk] # 0
            /\ outcome.key = rk /\ outcome.status # None)]_vars

\* C16 witness: the rescan has just skipped a key whose registered actor is
\* running with its log writer open.
C16_Skipped ==
    /\ outcome.act = "skip"
    /\ registry[outcome.key] = outcome.actor
    /\ actors[outcome.actor].pos = "loop"
    /\ actors[outcome.actor].log = "open"
    /\ ~actors[outcome.actor].stop

\* Actor a has been started, is in its polling loop, and neither its own
\* stop signal nor STOP_EVENT is set
Polling(a) == actors[a].pos = "loop" /\ ~actors[a].stop /\ ~STOP_EVENT

\* C17: no two distinct actors of the same sensor key are polling (started
\* and not stopped) in the same state.
C17_OneLiveActorPerKey ==
    \A a, b \in 1..Len(actors) :
        (a # b /\ actors[a].key = actors[b].key) => ~(Polling(a) /\ Polling(b))

\* Actor a was removed from the registry because its device was not found
Removed(a) == IF a <= Len(actors) THEN actors[a].popped ELSE FALSE

\* The thread of actor a has returned from run
Dead(a) == IF a <= Len(actors) THEN actors[a].pos = "dead" ELSE FALSE

----------------------------------------------------------------------------
\* Properties of the alert transport (SpecRun)

\* C19: when the cycle just done called allNaN, overTemp or underTemp, the
\* call took none of the loop's time for the transport: the next poll is
\* due one interval after the poll of this cycle.
C19_NextPollOnSchedule ==
    requested \in Kinds => WakeTime(now, t0, cfg.interval) = t0 + cfg.interval

\* C20: no failure of sendMail at its connection, login or sendmail step
\* ends the polling thread; the stamp of a kind whose last send failed is the
\* time that send ended; and a cycle that asks for the same kind less than
\* RESEND after it sends nothing, leaves the stamp alone and spends no time
\* in the mailer.
C20_FailedSendCounts ==
    [][/\ ~raised'
       /\ \A k \in Kinds : lastFail'[k] # None => lastSent'[k] = lastFail'[k][1]
       /\ \A k \in Kinds :
            (/\ lastFail[k] # None /\ t0' # t0 /\ requested' = k
             /\ t0' - lastFail[k][1] < RESEND)
            => /\ sent'[k] = sent[k]
               /\ lastSent'[k] = lastSent[k]
               /\ lastFail'[k] = lastFail[k]
               /\ now' = t0']_vars

\* C20 witness: the last send of a kind failed at its login step, and the
\* cycle just done asked for that kind again within the resend window.
C20_SuppressedAfterFailure ==
    \E k \in Kinds :
        /\ lastFail[k] # None
        /\ lastFail[k][2] = "login"
        /\ requested = k
        /\ t0 > lastFail[k][1]
        /\ t0 - lastFail[k][1] < RESEND

\* C24: an alert method is called only in a cycle whose poll counter nn has
\* reached MIN_NUM_POLL, and while nn is below it nothing has been sent.
C24_WarmUpFloor ==
    /\ requested \in Kinds => nn >= MIN_NUM_POLL
    /\ nn < MIN_NUM_POLL => \A k \in Kinds : sent[k] = << >>

\* C24 witness: one poll short of the floor the window mean is already above
\* the maximum threshold, and the cycle has called no alert method.
C24_NoAlertBelowFloor ==
    /\ nn = MIN_NUM_POLL - 1
    /\ t0 > cfg.start
    /\ Evaluate(nanmean(t_30min_avg), cfg.max_thres, cfg.min_thres) = "overTemp"
    /\ requested = "skip"

\* C30: every line is in the dated file of the calendar day of its record's
\* own timestamp (the day write() was called).
C30_OwnDateFile ==
    \A i \in 1..Len(lines) : lines[i].file = lines[i].day

\* C29: when run() has returned, the log writer is closed, its thread has
\* exited and its file handle is closed; the last heater-off call was made
\* before run() called close() on the writer, and after the loop (and with it
\* the last poll) had ended.
C29_ClosedAtReturn ==
    /\ xpc = "returned" => _closed /\ wpc = "done" /\ _fid # None /\ ~_fid[2]
    /\ xpc \in {"join", "returned"} => offTried
    /\ offTried => xpc # "loop"

\* C29 witness: run() has returned after its loop wrote two or more records.
C29_Returned ==
    /\ xpc = "returned"
    /\ closes = 1
    /\ Len(lines) >= 2
    /\ late = {}

----------------------------------------------------------------------------
\* Properties of cancellation and of the heater cycle (SpecBus)

\* C25: no step takes the run() thread of a sensor to the start of a poll
\* when that sensor's stop() has been called or STOP_EVENT is set.
C25_NoPollAfterStop ==
    [][\A s \in SensorIds :
         ((stop[s] \/ STOP_EVENT) /\ pc[RunT(s)] # "poll_acquire")
         => pc'[RunT(s)] # "poll_acquire"]_vars

\* C26: when a sensor was stopped by the rescan (STOP_EVENT unset) and its
\* run() has returned, no heater Timer of it is pending or about to be
\* started, and its run_heater is not on the way to switching the heater on.
C26_HeaterQuietAfterStop ==
    \A s \in SensorIds :
        (stop[s] /\ ~STOP_EVENT /\ pc[RunT(s)] = "done") =>
            /\ ~heaterTimer[s]
            /\ pc[HeatT(s)] \notin {"hlock", "on_acquire", "on_write", "timer_start"}

\* C27: when STOP_EVENT is set and the run() of a sensor that was not stopped
\* by a rescan has returned, no heater Timer of that sensor is pending.
C27_NoTimerAfterShutdown ==
    \A s \in SensorIds :
        (STOP_EVENT /\ ~stop[s] /\ pc[RunT(s)] = "done") => ~heaterTimer[s]

\* Positions of run_heater inside its with block, from the heater-on call
\* to the end of the heater-off call
InsideWith == {"on_acquire", "on_write", "off_acquire", "off_write", "hunlock"}

\* C28: the thread of a run_heater call holds HEATER_LOCK exactly while it is
\* between the start of its heater-on call and the end of its heater-off
\* call, whether or not STOP_EVENT was set meanwhile; it does not hold it
\* while it waits for the lock, tests STOP_EVENT, starts the next Timer, or
\* while that Timer is pending.
C28_HeaterProtocol ==
    \A s \in SensorIds :
        (pc[HeatT(s)] \in InsideWith) <=> (HeatT(s) \in HEATER_LOCK)

\* C28 witness: STOP_EVENT is set and a run_heater call whose heater is on
\* is at its heater-off write, still holding HEATER_LOCK.
C28_OffUnderLockAtShutdown ==
    \E s \in SensorIds :
        /\ STOP_EVENT
        /\ pc[HeatT(s)] = "off_write"
        /\ heater[s]
        /\ HEATER_LOCK = {HeatT(s)}

\* C23: during a rescan a faulty settings entry is skipped and every other
\* configured entry is still processed: whenever the rescan leaves a key it
\* goes on to the next configured key, and ends only after the last one.
C23_OthersProcessed ==
    [][(rk # 0 /\ rk' # rk) => rk' = NextKey]_vars

\* C21: shutdown terminates: once STOP_EVENT is set, under fair scheduling
\* every actor thread eventually ends with its log closed and Sensors.join()
\* eventually returns.
C21_ShutdownTerminates ==
    STOP_EVENT ~> (/\ \A a \in 1..MaxActors : a <= Len(actors) => Dead(a)
                   /\ jpc = "done")

\* C22: no thread is blocked forever waiting for a lock: under fair
\* scheduling every call of Sensors.join() eventually obtains SCAN_LOCK.
C22_JoinObtainsLock ==
    (jpc = "lock") ~> (jpc # "lock")

\* C31: once the writer has opened its first file, the stable name '<csv>'
\* exists and is a link to the file of the writer's open handle, and that
\* file is the one named for the current day.  The writer looks at the date
\* only when it writes, so the day is compared once a record has been
\* written on the current day.
C31_StablePointer ==
    (_fid # None /\ _fid[2]) =>
        /\ link # None
        /\ link[1] = _fid[1]
        /\ (lines # << >> /\ lines[Len(lines)].at = today) => _fid[1] = today

\* C32: for each sensor log path at most one DailyRotatingCSV writer has its
\* append handle open at any time: no two actors constructed for the same
\* key have their data_log open together.
C32_OneWriterPerLog ==
    \A a \in 1..Len(actors), b \in 1..Len(actors) :
        (a # b /\ actors[a].key = actors[b].key) =>
            ~(actors[a].log = "open" /\ actors[b].log = "open")

\* C33: the rolling window has at least one slot for every configured
\* interval, and inserting a reading succeeds: every iteration of the
\* polling loop finds a window of length 30 min / interval, at least 1, and
\* goes on after its insert.
C33_InsertSucceeds ==
    [][t0' # t0 => /\ Len(t_30min_avg) >= 1
                   /\ Len(t_30min_avg') = Len(t_30min_avg)
                   /\ ~crashed']_vars

\* C34: temperature and humidity are read independently within one poll:
\* when poll() has returned to its caller with the lock acquired, both reads
\* have been attempted whatever the other one did, each value is a reading
\* or NaN, and the polling thread is back in its loop.
C34_ReadsIndependent ==
    \A t \in PollCallers :
        (pc[t] = PollRet(t) /\ ~call[t].timedOut /\ call[t].ops > 0) =>
            /\ call[t].ops = 2
            /\ call[t].t \in {NaN} \cup {<< x >> : x \in BusTemps}
            /\ call[t].rh \in {NaN} \cup {<< x >> : x \in BusRH}
            /\ t \notin I2C_LOCK

\* C34 witness: polls of a sensor thread have returned with every
\* combination of failures: one whose temperature read failed gave a
\* humidity, and the thread is back in its loop.
C34_TemperatureFailedOnly ==
    \E s \in SensorIds :
        /\ pc[RunT(s)] = "loop"
        /\ call[RunT(s)].ops = 2
        /\ call[RunT(s)].t = NaN
        /\ call[RunT(s)].rh # NaN

\* C35: every count and iteration of the sensor map is made while SCAN_LOCK
\* is held, so no reader observes the map while a rescan is between its
\* keys, adding and removing entries.
C35_NoReadDuringRescan ==
    view.op # "none" => ~view.scanning

\* C36: a notification send that stalls for one sensor never prevents a
\* different sensor from completing its poll cycles: a sensor whose cycle has
\* reached its alert call can go on while another sensor's send is stalled.
C36_AlertPathIsolated ==
    \A r \in SensorIds, s \in SensorIds :
        (r # s /\ mpc[r] = "alert" /\ mpc[s] = "stalled") => ENABLED lockedWrap(r)

\* C37: scan_for_sensors releases SCAN_LOCK on every exit path after
\* acquiring it: whenever no rescan is running, SCAN_LOCK is not held.
C37_ReleasedOnEveryExit ==
    rk = 0 => ~SCAN_LOCK

\* The iterations the polling loop has made, each of which inserts one
\* reading into the window: the first starts when the first delay ends, the
\* others follow one interval apart
Iterations ==
    IF t0 = 0 THEN 0
    ELSE LET first == IF cfg.start > cfg.interval THEN cfg.start ELSE cfg.interval
         IN (t0 - first) \div cfg.interval + 1

\* C38: whenever the rolling mean is evaluated for alerts, the polling loop
\* has inserted at least MIN_NUM_POLL readings into the window; and the
\* counter nn advances only in a loop iteration, with its insert.
C38_CountsInserts ==
    /\ [](requested # "skip" => Iterations >= MIN_NUM_POLL)
    /\ [][nn' # nn => t0' # t0]_vars

\* C39: a loop iteration whose poll timed out at I2C_LOCK still records a
\* reading: (NaN, NaN) goes to data_log.write and NaN is inserted as the
\* newest entry of the window, while nn is left as it was.
C39_TimedOutPollRecorded ==
    [][(t0' # t0 /\ ~reading'.acquired) =>
          /\ reading'.t = NaN
          /\ reading'.rh = NaN
          /\ nn' = nn
          /\ Stores(t_30min_avg) =>
               /\ t_30min_avg'[Len(t_30min_avg')] = NaN
               /\ inserted'[Len(inserted')] = NaN
               /\ ~crashed']_vars

\* C39 witness: after polls that were counted, the last iteration's poll
\* timed out: its record is (NaN, NaN) and the newest window entry is NaN.
C39_TimedOutAfterCounted ==
    /\ t0 > cfg.start
    /\ nn > 0
    /\ ~reading.acquired
    /\ reading.t = NaN /\ reading.rh = NaN
    /\ Stores(t_30min_avg)
    /\ t_30min_avg[Len(t_30min_avg)] = NaN
    /\ \E i \in 1..Len(t_30min_avg) : t_30min_avg[i] # NaN

\* C40: RepeatedTimer has at most one pending Timer at any time, and after
\* stop() has returned the wrapped function is never invoked again, for
\* every interleaving of stop() with a running _run() callback.
C40_StopStops ==
    /\ Cardinality(pending) <= 1
    /\ ~calledAfterStop

====
